---- MODULE Spec2Model ----
(***************************************************************************)
(* A model of the two verification scripts of the repository,              *)
(* test_pydantic_lsp_features.py and test_lsp_comprehension.py.            *)
(*                                                                         *)
(* The scripts declare pydantic model classes and call them from test      *)
(* functions.  The model has three ways of using a script:                 *)
(*   "main"     the script is executed directly (its __main__ block),      *)
(*   "harness"  the module is imported and its test_* functions are        *)
(*              called by a collector, in any order and repeatedly,        *)
(*   "client"   the model classes of test_pydantic_lsp_features.py are     *)
(*              instantiated, read, assigned and dumped with inputs        *)
(*              drawn from bounded sets.                                   *)
(*                                                                         *)
(* Python values:  a str is a sequence of one-character strings; a float   *)
(* is an integer count of thousandths; a raw (unvalidated) input is a      *)
(* record [t |-> type name, v |-> value].  The check-mark and bullet       *)
(* glyphs of the printed lines are left out of the line texts.             *)
(***************************************************************************)
EXTENDS Integers, Sequences, FiniteSets, TLC

VARIABLES
    mode,     \* "main", "harness" or "client"
    script,   \* the script in use
    lib,      \* the decorators the installed pydantic honours at run time
    pc,       \* main: index of the next statement of the __main__ block
    status,   \* main: "running", "exit0" or "exit1"
    raised,   \* main: the exception that ended the run, or "none"
    out,      \* main: the lines printed to standard output
    calls,    \* main: the test functions invoked so far, in order
    ncalls,   \* harness: number of test calls made
    last,     \* harness: the latest call and what it gave
    results,  \* harness: per test function, the set of results seen
    instBy,   \* harness: per model class, the test functions that called it
    obj,      \* client: the instance (or the error its construction raised)
    inp,      \* client: the keyword arguments the instance was built from
    res       \* client: the latest read or dump

vars == <<mode, script, lib, pc, status, raised, out, calls, ncalls, last,
          results, instBy, obj, inp, res>>

(***************************************************************************)
(* Bounds of the model.                                                    *)
(***************************************************************************)
\* Longest raw input string drawn in client mode.
MaxStrLen == 3
\* Largest raw input integer drawn in client mode (the least is -1).
MaxInt == 4
\* Test calls a harness makes.
MaxCalls == 2
\* The wins and losses of a Stats are drawn from -1..MaxCount.
MaxCount == 5
\* The bits of precision of a float: 53 in the interpreter, fewer here, so
\* that counts within MaxCount reach the quotients a float cannot hold.
MantissaBits == 3

(***************************************************************************)
(* Python str, as sequences of characters.                                 *)
(***************************************************************************)
\* The characters of the model in code point order.
CodePoints ==
    <<" ", ",", "-", ".",
      "0", "1", "2", "3", "4", "5", "6", "7", "8", "9", "@",
      "A", "B", "C", "D", "E", "F", "G", "H", "I", "J", "K", "L", "M",
      "N", "O", "P", "Q", "R", "S", "T", "U", "V", "W", "X", "Y", "Z", "_",
      "a", "b", "c", "d", "e", "f", "g", "h", "i", "j", "k", "l", "m",
      "n", "o", "p", "q", "r", "s", "t", "u", "v", "w", "x", "y", "z">>

\* ord(c), counted from the first character of the model.
OrdOf ==
    [c \in {CodePoints[i] : i \in 1..Len(CodePoints)} |->
        CHOOSE i \in 1..Len(CodePoints) : CodePoints[i] = c]
Ord(c) == OrdOf[c]

Digits == {"0", "1", "2", "3", "4", "5", "6", "7", "8", "9"}
DigitChars == <<"0", "1", "2", "3", "4", "5", "6", "7", "8", "9">>
DigitVal(c) == Ord(c) - Ord("0")

IsUpperChar(c) == Ord(c) >= Ord("A") /\ Ord(c) <= Ord("Z")
IsLowerChar(c) == Ord(c) >= Ord("a") /\ Ord(c) <= Ord("z")
\* The regular expression class \w and the class [\w\.-].
IsWordChar(c) == IsUpperChar(c) \/ IsLowerChar(c) \/ c \in Digits \/ c = "_"
IsWordDotDash(c) == IsWordChar(c) \/ c = "." \/ c = "-"

LowerChar(c) == IF IsUpperChar(c) THEN CodePoints[Ord(c) + (Ord("a") - Ord("A"))] ELSE c
UpperChar(c) == IF IsLowerChar(c) THEN CodePoints[Ord(c) - (Ord("a") - Ord("A"))] ELSE c

\* str.lower(), str.upper()
Lower(s) == [i \in 1..Len(s) |-> LowerChar(s[i])]
Upper(s) == [i \in 1..Len(s) |-> UpperChar(s[i])]

SetMin(S) == CHOOSE m \in S : \A n \in S : m <= n
SetMax(S) == CHOOSE m \in S : \A n \in S : m >= n

\* str.strip(): leading and trailing whitespace removed.
Strip(s) ==
    LET keep == {i \in 1..Len(s) : s[i] # " "}
    IN  IF keep = {} THEN <<>> ELSE SubSeq(s, SetMin(keep), SetMax(keep))

\* sub in s, for strings (and for messages, sequences of words)
Contains(s, sub) ==
    \E i \in 0..(Len(s) - Len(sub)) : SubSeq(s, i + 1, i + Len(sub)) = sub

\* s[:n]
Prefix(s, n) == SubSeq(s, 1, IF Len(s) < n THEN Len(s) ELSE n)

\* Value of a non-empty string of digits.
RECURSIVE DigitsValue(_)
DigitsValue(s) ==
    IF s = <<>> THEN 0
    ELSE 10 * DigitsValue(SubSeq(s, 1, Len(s) - 1)) + DigitVal(s[Len(s)])

\* Whether int(s) succeeds: digits, with surrounding whitespace allowed.
IsIntLiteral(s) ==
    LET d == Strip(s) IN d # <<>> /\ \A i \in 1..Len(d) : d[i] \in Digits

\* int(s) of a string that is an integer literal.
ParseInt(s) == DigitsValue(Strip(s))

\* str(n) of an integer.
RECURSIVE NatStr(_)
NatStr(n) ==
    IF n < 10 THEN <<DigitChars[n + 1]>>
    ELSE NatStr(n \div 10) \o <<DigitChars[(n % 10) + 1]>>
PyStr(n) == IF n < 0 THEN <<"-">> \o NatStr(-n) ELSE NatStr(n)

\* Lexicographic order of strings by code point, as sorted() uses it.
RECURSIVE StrLess(_, _)
StrLess(a, b) ==
    IF a = <<>> THEN b # <<>>
    ELSE IF b = <<>> THEN FALSE
    ELSE IF a[1] = b[1] THEN StrLess(Tail(a), Tail(b))
    ELSE Ord(a[1]) < Ord(b[1])

\* sorted(S) of a set of strings.
RECURSIVE Sorted(_)
Sorted(S) ==
    IF S = {} THEN <<>>
    ELSE LET m == CHOOSE x \in S : \A y \in S : x = y \/ StrLess(x, y)
         IN  <<m>> \o Sorted(S \ {m})

(***************************************************************************)
(* Python values and pydantic's validation of the annotated field types.   *)
(***************************************************************************)
IntV(n) == [t |-> "int", v |-> n]
StrV(s) == [t |-> "str", v |-> s]
FloatV(m) == [t |-> "float", v |-> m]

IsNumber(x) == x.t \in {"int", "float"}
\* A number in thousandths, whatever its type.
Milli(x) == IF x.t = "int" THEN 1000 * x.v ELSE x.v

\* a == b of two Python values: numbers compare by value across int and
\* float, a str equals only a str.
PyEq(a, b) ==
    IF IsNumber(a) /\ IsNumber(b) THEN Milli(a) = Milli(b)
    ELSE a.t = b.t /\ a.v = b.v

\* The decorators of pydantic the scripts import.
Features == {"computed_field", "field_validator", "model_validator", "field_serializer"}

\* Whether the installed library honours a decorator at run time.
Honours(f) == f \in lib

\* The outcome of validating one field.
Valid(v) == [ok |-> TRUE, v |-> v, msg |-> <<>>]
Invalid(msg) == [ok |-> FALSE, v |-> <<>>, msg |-> msg]

\* A ValueError raised inside a validator, as pydantic reports it.
ValueError(msg) == Invalid(<<"Value", "error,">> \o msg)

\* A field annotated int: an int is kept, a str that is an integer literal
\* and a float without fraction are converted, anything else is refused.
ValidateInt(x) ==
    IF x.t = "int" THEN Valid(x.v)
    ELSE IF x.t = "str" /\ IsIntLiteral(x.v) THEN Valid(ParseInt(x.v))
    ELSE IF x.t = "float" /\ x.v % 1000 = 0 THEN Valid(x.v \div 1000)
    ELSE Invalid(<<"Input", "should", "be", "a", "valid", "integer">>)

\* A str field of a model configured with str_strip_whitespace.
ValidateStr_stripping(x) ==
    IF x.t = "str" THEN Valid(Strip(x.v))
    ELSE Invalid(<<"Input", "should", "be", "a", "valid", "string">>)

\* A field annotated str: only a str is accepted.
ValidateStr(x) ==
    IF x.t = "str" THEN Valid(x.v)
    ELSE Invalid(<<"Input", "should", "be", "a", "valid", "string">>)

\* A field annotated float: a float is kept, an int and a str that is an
\* integer literal are converted.
ValidateFloat(x) ==
    IF x.t = "float" THEN Valid(x.v)
    ELSE IF x.t = "int" THEN Valid(1000 * x.v)
    ELSE IF x.t = "str" /\ IsIntLiteral(x.v) THEN Valid(1000 * ParseInt(x.v))
    ELSE Invalid(<<"Input", "should", "be", "a", "valid", "number">>)

\* The ValidationError a construction raises: the messages of the fields
\* that failed, in field order.
RECURSIVE JoinMsgs(_)
JoinMsgs(fs) == IF fs = <<>> THEN <<>> ELSE Head(fs).msg \o JoinMsgs(Tail(fs))
ValidationError(fs) == [cls |-> "ValidationError", msg |-> JoinMsgs(fs)]
AllValid(fs) == \A i \in 1..Len(fs) : fs[i].ok
IsError(o) == o.cls = "ValidationError"

(***************************************************************************)
(* test_pydantic_lsp_features.py, 1: UserWithFields                        *)
(***************************************************************************)
\* ^[\w\.-]+@[\w\.-]+\.\w+$
MatchesEmailPattern(s) ==
    \E i, j \in 1..Len(s) :
        /\ 1 < i /\ i + 1 < j /\ j < Len(s)
        /\ s[i] = "@" /\ s[j] = "."
        /\ \A k \in 1..(i - 1) : IsWordDotDash(s[k])
        /\ \A k \in (i + 1)..(j - 1) : IsWordDotDash(s[k])
        /\ \A k \in (j + 1)..Len(s) : IsWordChar(s[k])

\* Field(min_length=1), Field(ge=0, le=150), Field(pattern=...)
UserWithFields_name(x) ==
    LET f == ValidateStr(x)
    IN  IF f.ok /\ Len(f.v) < 1
        THEN Invalid(<<"String", "should", "have", "at", "least", "1", "character">>)
        ELSE f
UserWithFields_age(x) ==
    LET f == ValidateInt(x)
    IN  IF f.ok /\ f.v < 0
        THEN Invalid(<<"Input", "should", "be", "greater", "than", "or", "equal", "to", "0">>)
        ELSE IF f.ok /\ f.v > 150
        THEN Invalid(<<"Input", "should", "be", "less", "than", "or", "equal", "to", "150">>)
        ELSE f
UserWithFields_email(x) ==
    LET f == ValidateStr(x)
    IN  IF f.ok /\ ~MatchesEmailPattern(f.v)
        THEN Invalid(<<"String", "should", "match", "pattern">>)
        ELSE f

\* UserWithFields(name=, age=, email=)
UserWithFields_new(kw) ==
    LET n == UserWithFields_name(kw.name)
        a == UserWithFields_age(kw.age)
        e == UserWithFields_email(kw.email)
    IN  IF AllValid(<<n, a, e>>)
        THEN [cls |-> "UserWithFields", name |-> n.v, age |-> a.v, email |-> e.v]
        ELSE ValidationError(<<n, a, e>>)

\* UserWithFields.model_fields['age'].description
UserWithFields_age_description == "User's age"

(***************************************************************************)
(* 2: Rectangle                                                            *)
(***************************************************************************)
\* Rectangle(width=, length=)
Rectangle_new(kw) ==
    LET w == ValidateInt(kw.width)
        l == ValidateInt(kw.length)
    IN  IF AllValid(<<w, l>>)
        THEN [cls |-> "Rectangle", width |-> w.v, length |-> l.v]
        ELSE ValidationError(<<w, l>>)

\* The property area.
Rectangle_area(self) == self.width * self.length

\* The property perimeter.
Rectangle_perimeter(self) == 2 * (self.width + self.length)

\* rect.model_dump() of the declared fields alone.
Rectangle_model_dump_fields_only(self) ==
    [width |-> self.width, length |-> self.length]

\* rect.model_dump(): the fields, then the computed fields, each read from
\* the instance as the dump is made.
Rectangle_model_dump(self) ==
    IF Honours("computed_field")
    THEN [width |-> self.width, length |-> self.length,
          area |-> Rectangle_area(self), perimeter |-> Rectangle_perimeter(self)]
    ELSE [width |-> self.width, length |-> self.length]

(***************************************************************************)
(* 3: GenericContainer                                                     *)
(***************************************************************************)
\* GenericContainer[T](value=, count=), T one of int and str; count
\* defaults to 1.
GenericContainer_new(T, kw) ==
    LET v == IF T = "int" THEN ValidateInt(kw.value) ELSE ValidateStr(kw.value)
        c == IF "count" \in DOMAIN kw THEN ValidateInt(kw.count) ELSE Valid(1)
    IN  IF AllValid(<<v, c>>)
        THEN [cls |-> "GenericContainer", T |-> T, value |-> v.v, count |-> c.v]
        ELSE ValidationError(<<v, c>>)

(***************************************************************************)
(* 4: ValidatedModel                                                       *)
(***************************************************************************)
\* validate_name returning a name that is not blank as it was given.
validate_name_unstripped(v) ==
    IF Strip(v) = <<>>
    THEN ValueError(<<"name", "cannot", "be", "empty">>)
    ELSE Valid(v)

\* validate_name(cls, v)
validate_name(v) ==
    IF Strip(v) = <<>>
    THEN ValueError(<<"name", "cannot", "be", "empty">>)
    ELSE Valid(Strip(v))

\* parse_age(cls, v): int(v) of a str, which raises ValueError unless v is
\* an integer literal; any other value is returned as it is.
parse_age(v) ==
    IF v.t = "str"
    THEN IF IsIntLiteral(v.v)
         THEN Valid(IntV(ParseInt(v.v)))
         ELSE ValueError(<<"invalid", "literal", "for", "int()">>)
    ELSE Valid(v)

\* validate_email(cls, v, info)
validate_email(v) ==
    IF ~("@" \in {v[i] : i \in 1..Len(v)})
    THEN ValueError(<<"invalid", "email">>)
    ELSE Valid(Lower(v))

\* The field name: the str validation, then validate_name.
ValidatedModel_name(x) ==
    LET f == ValidateStr(x)
    IN  IF f.ok /\ Honours("field_validator") THEN validate_name(f.v) ELSE f

\* The field age: parse_age (mode='before'), then the int validation.
ValidatedModel_age(x) ==
    LET b == IF Honours("field_validator") THEN parse_age(x) ELSE Valid(x)
    IN  IF b.ok THEN ValidateInt(b.v) ELSE b

\* The field email: the str validation, then validate_email.
ValidatedModel_email(x) ==
    LET f == ValidateStr(x)
    IN  IF f.ok /\ Honours("field_validator") THEN validate_email(f.v) ELSE f

\* ValidatedModel(name=, age=, email=)
ValidatedModel_new(kw) ==
    LET n == ValidatedModel_name(kw.name)
        a == ValidatedModel_age(kw.age)
        e == ValidatedModel_email(kw.email)
    IN  IF AllValid(<<n, a, e>>)
        THEN [cls |-> "ValidatedModel", name |-> n.v, age |-> a.v, email |-> e.v]
        ELSE ValidationError(<<n, a, e>>)

(***************************************************************************)
(* 5: Square, FlexibleInput                                                *)
(***************************************************************************)
\* verify_square refusing only a width above the height.
verify_square_wider_only(self) ==
    IF self.width > self.height
    THEN ValueError(<<"width", "and", "height", "must", "match", "for", "a", "square">>)
    ELSE Valid(self)

\* verify_square(self)
verify_square(self) ==
    IF self.width # self.height
    THEN ValueError(<<"width", "and", "height", "must", "match", "for", "a", "square">>)
    ELSE Valid(self)

\* Square(width=, height=): the fields, then verify_square (mode='after').
Square_new(kw) ==
    LET w == ValidateFloat(kw.width)
        h == ValidateFloat(kw.height)
        self == [cls |-> "Square", width |-> w.v, height |-> h.v]
    IN  IF ~AllValid(<<w, h>>) THEN ValidationError(<<w, h>>)
        ELSE IF ~Honours("model_validator") THEN self
        ELSE LET r == verify_square(self)
             IN  IF r.ok THEN r.v ELSE ValidationError(<<r>>)

\* normalize_input(cls, values).  Construction by keywords hands it a
\* dict, which it returns; the str branch needs a model_validate call on a
\* str, which the scripts never make.
normalize_input(values) == values

\* FlexibleInput(data=): normalize_input (mode='before'), then the field.
FlexibleInput_new(kw) ==
    LET values == IF Honours("model_validator") THEN normalize_input(kw) ELSE kw
        d == IF values.data.t = "dict" THEN Valid(values.data.v)
             ELSE Invalid(<<"Input", "should", "be", "a", "valid", "dictionary">>)
    IN  IF d.ok THEN [cls |-> "FlexibleInput", data |-> d.v]
        ELSE ValidationError(<<d>>)

(***************************************************************************)
(* 6: SerializedModel                                                      *)
(***************************************************************************)
\* serialize_courses(self, courses)
serialize_courses(courses) == Sorted(courses)

\* serialize_score(self, score): round(score, 2).  The values round() can
\* give: the nearer multiple of a hundredth, and either neighbour when the
\* decimal is half way, where the binary value of the float decides.
serialize_score(score) ==
    LET lo == score - (score % 10)
        r == score % 10
    IN  IF r < 5 THEN {lo}
        ELSE IF r > 5 THEN {lo + 10}
        ELSE {lo, lo + 10}

\* SerializedModel(courses=, score=)
SerializedModel_new(kw) ==
    LET c == IF kw.courses.t = "set" THEN Valid(kw.courses.v)
             ELSE Invalid(<<"Input", "should", "be", "a", "valid", "set">>)
        s == ValidateFloat(kw.score)
    IN  IF AllValid(<<c, s>>)
        THEN [cls |-> "SerializedModel", courses |-> c.v, score |-> s.v]
        ELSE ValidationError(<<c, s>>)

\* The orders in which a set can be listed.
Listings(S) ==
    {p \in [1..Cardinality(S) -> S] : \A i, j \in 1..Cardinality(S) : p[i] = p[j] => i = j}

\* model.model_dump(): the dicts it can return.  serialize_courses is
\* declared when_used='json' and is not used here.
SerializedModel_model_dump(self) ==
    {[courses |-> self.courses, score |-> s] :
        s \in IF Honours("field_serializer")
              THEN serialize_score(self.score) ELSE {self.score}}

\* json.loads(model.model_dump_json()): the documents it can give.
SerializedModel_model_dump_json(self) ==
    {[courses |-> c, score |-> s] :
        c \in IF Honours("field_serializer")
              THEN {serialize_courses(self.courses)} ELSE Listings(self.courses),
        s \in IF Honours("field_serializer")
              THEN serialize_score(self.score) ELSE {self.score}}

(***************************************************************************)
(* 7: Address, Person                                                      *)
(***************************************************************************)
\* Field(pattern=r'^\d{5}$')
Address_zipcode(x) ==
    LET f == ValidateStr(x)
    IN  IF f.ok /\ ~(Len(f.v) = 5 /\ \A i \in 1..Len(f.v) : f.v[i] \in Digits)
        THEN Invalid(<<"String", "should", "match", "pattern">>)
        ELSE f

\* Address(street=, city=, zipcode=)
Address_new(kw) ==
    LET s == ValidateStr(kw.street)
        c == ValidateStr(kw.city)
        z == Address_zipcode(kw.zipcode)
    IN  IF AllValid(<<s, c, z>>)
        THEN [cls |-> "Address", street |-> s.v, city |-> c.v, zipcode |-> z.v]
        ELSE ValidationError(<<s, c, z>>)

\* Person(name=, address=), address an Address instance
Person_new(kw) ==
    LET n == ValidateStr(kw.name)
        a == IF kw.address.t = "Address" THEN Valid(kw.address.v)
             ELSE Invalid(<<"Input", "should", "be", "a", "valid", "Address">>)
    IN  IF AllValid(<<n, a>>)
        THEN [cls |-> "Person", name |-> n.v, address |-> a.v]
        ELSE ValidationError(<<n, a>>)

\* The property full_location.
Person_full_location(self) == self.address.city \o <<",", " ">> \o self.address.zipcode

(***************************************************************************)
(* 8: ComplexModel                                                         *)
(***************************************************************************)
\* preprocess_data(cls, v)
preprocess_data(v) == IF v.t = "int" THEN StrV(PyStr(v.v)) ELSE v

\* validate_data(cls, v)
validate_data(v) ==
    IF Strip(v) = <<>>
    THEN ValueError(<<"data", "cannot", "be", "empty">>)
    ELSE Valid(Upper(Strip(v)))

\* set_processed(self)
set_processed(self) == [self EXCEPT !.processed = Len(self.raw_data)]

\* serialize_data(self, value)
serialize_data(value) == Lower(value)

\* The property summary.
ComplexModel_summary(self) ==
    Prefix(self.raw_data, 10) \o <<".", ".", ".", " ", "(">>
        \o PyStr(self.processed) \o <<" ", "c", "h", "a", "r", "s", ")">>

\* The field raw_data with preprocess_data alone: the str validation of
\* what it returns.
ComplexModel_raw_data_before_only(x) ==
    ValidateStr(IF Honours("field_validator") THEN preprocess_data(x) ELSE x)

\* The field raw_data: preprocess_data (mode='before'), the str
\* validation, then validate_data.
ComplexModel_raw_data(x) ==
    LET b == IF Honours("field_validator") THEN preprocess_data(x) ELSE x
        f == ValidateStr(b)
    IN  IF f.ok /\ Honours("field_validator") THEN validate_data(f.v) ELSE f

\* ComplexModel(...) with set_processed run on the value preprocess_data
\* returned, ahead of validate_data.
ComplexModel_new_counting_early(kw) ==
    LET r == ComplexModel_raw_data(kw.raw_data)
        p == IF "processed" \in DOMAIN kw THEN ValidateInt(kw.processed) ELSE Valid(0)
    IN  IF ~AllValid(<<r, p>>) THEN ValidationError(<<r, p>>)
        ELSE [cls |-> "ComplexModel", raw_data |-> r.v,
              processed |-> Len(preprocess_data(kw.raw_data).v)]

\* ComplexModel(raw_data=, processed=0): the fields, then set_processed
\* (mode='after').
ComplexModel_new(kw) ==
    LET r == ComplexModel_raw_data(kw.raw_data)
        p == IF "processed" \in DOMAIN kw THEN ValidateInt(kw.processed) ELSE Valid(0)
        self == [cls |-> "ComplexModel", raw_data |-> r.v, processed |-> p.v]
    IN  IF ~AllValid(<<r, p>>) THEN ValidationError(<<r, p>>)
        ELSE IF Honours("model_validator") THEN set_processed(self)
        ELSE self

\* model.model_dump()
ComplexModel_model_dump(self) ==
    LET d == IF Honours("field_serializer") THEN serialize_data(self.raw_data)
             ELSE self.raw_data
    IN  IF Honours("computed_field")
        THEN [raw_data |-> d, processed |-> self.processed,
              summary |-> ComplexModel_summary(self)]
        ELSE [raw_data |-> d, processed |-> self.processed]

(***************************************************************************)
(* The test functions of test_pydantic_lsp_features.py.  A call gives the  *)
(* exception it raises ("none" when it returns), the lines it prints, and  *)
(* the model classes it has called by then.                                *)
(***************************************************************************)
Passed(line, made) == [raised |-> "none", printed |-> <<line>>, made |-> made]
Raised(exc, made) == [raised |-> exc, printed |-> <<>>, made |-> made]

test_field_descriptor ==
    LET user == UserWithFields_new([name |-> StrV(<<"A", "l", "i", "c", "e">>), age |-> IntV(30),
                                    email |-> StrV(<<"a", "l", "i", "c", "e", "@", "e", "x", "a", "m", "p", "l", "e", ".", "c", "o", "m">>)])
    IN  IF IsError(user) THEN Raised("ValidationError", {"UserWithFields"})
        ELSE IF /\ user.age = 30
                /\ user.name = <<"A", "l", "i", "c", "e">>
                /\ UserWithFields_age_description = "User's age"
        THEN Passed("Field descriptor protocol works correctly", {"UserWithFields"})
        ELSE Raised("AssertionError", {"UserWithFields"})

\* test_computed_field building a UserWithFields of its own as well.
test_computed_field_with_user ==
    LET rect == Rectangle_new([width |-> IntV(3), length |-> IntV(4)])
    IN  IF IsError(rect) THEN Raised("ValidationError", {"Rectangle", "UserWithFields"})
        ELSE IF Rectangle_area(rect) = 12 /\ Rectangle_perimeter(rect) = 14
        THEN Passed("computed_field property typing works correctly",
                    {"Rectangle", "UserWithFields"})
        ELSE Raised("AssertionError", {"Rectangle", "UserWithFields"})

test_computed_field ==
    LET rect == Rectangle_new([width |-> IntV(3), length |-> IntV(4)])
        data == Rectangle_model_dump(rect)
    IN  IF IsError(rect) THEN Raised("ValidationError", {"Rectangle"})
        ELSE IF /\ Rectangle_area(rect) = 12
                /\ Rectangle_perimeter(rect) = 14
                /\ "area" \in DOMAIN data
                /\ data.area = 12
                /\ data.width = 3
        THEN Passed("computed_field property typing works correctly", {"Rectangle"})
        ELSE Raised("AssertionError", {"Rectangle"})

test_generic_model ==
    LET int_container == GenericContainer_new("int", [value |-> IntV(42), count |-> IntV(1)])
        str_container == GenericContainer_new("str", [value |-> StrV(<<"h", "e", "l", "l", "o">>), count |-> IntV(1)])
    IN  IF IsError(int_container) THEN Raised("ValidationError", {"GenericContainer"})
        ELSE IF int_container.value # 42 THEN Raised("AssertionError", {"GenericContainer"})
        ELSE IF IsError(str_container) THEN Raised("ValidationError", {"GenericContainer"})
        ELSE IF str_container.value # <<"h", "e", "l", "l", "o">> THEN Raised("AssertionError", {"GenericContainer"})
        ELSE Passed("Generic model support works correctly", {"GenericContainer"})

test_field_validator ==
    LET model == ValidatedModel_new([name |-> StrV(<<" ", " ", "A", "l", "i", "c", "e", " ", " ">>), age |-> StrV(<<"3", "0">>),
                                     email |-> StrV(<<"A", "L", "I", "C", "E", "@", "E", "X", "A", "M", "P", "L", "E", ".", "C", "O", "M">>)])
        result == validate_name(<<" ", " ", "t", "e", "s", "t", " ", " ">>)
    IN  IF IsError(model) THEN Raised("ValidationError", {"ValidatedModel"})
        ELSE IF ~(/\ model.name = <<"A", "l", "i", "c", "e">>
                  /\ model.age = 30
                  /\ model.email = <<"a", "l", "i", "c", "e", "@", "e", "x", "a", "m", "p", "l", "e", ".", "c", "o", "m">>)
        THEN Raised("AssertionError", {"ValidatedModel"})
        ELSE IF ~result.ok THEN Raised("ValueError", {"ValidatedModel"})
        ELSE IF result.v # <<"t", "e", "s", "t">> THEN Raised("AssertionError", {"ValidatedModel"})
        ELSE Passed("field_validator signature preservation works correctly",
                    {"ValidatedModel"})

test_model_validator ==
    LET square == Square_new([width |-> FloatV(5000), height |-> FloatV(5000)])
        other == Square_new([width |-> FloatV(5000), height |-> FloatV(6000)])
        flexible == FlexibleInput_new([data |-> [t |-> "dict", v |-> [key |-> StrV(<<"v", "a", "l", "u", "e">>)]]])
    IN  IF IsError(square) THEN Raised("ValidationError", {"Square"})
        ELSE IF square.width # square.height THEN Raised("AssertionError", {"Square"})
        \* try: Square(...); assert False  except ValueError as e: assert ... in str(e)
        ELSE IF ~IsError(other) THEN Raised("AssertionError", {"Square"})
        ELSE IF ~Contains(other.msg, <<"must", "match">>)
        THEN Raised("AssertionError", {"Square"})
        ELSE IF IsError(flexible) THEN Raised("ValidationError", {"Square", "FlexibleInput"})
        ELSE IF flexible.data # [key |-> StrV(<<"v", "a", "l", "u", "e">>)]
        THEN Raised("AssertionError", {"Square", "FlexibleInput"})
        ELSE Passed("model_validator signature preservation works correctly",
                    {"Square", "FlexibleInput"})

test_field_serializer ==
    LET model == SerializedModel_new(
                     [courses |-> [t |-> "set", v |-> {<<"M", "a", "t", "h">>, <<"E", "n", "g", "l", "i", "s", "h">>, <<"C", "h", "e", "m", "i", "s", "t", "r", "y">>}],
                      score |-> FloatV(95678)])
    IN  IF IsError(model) THEN Raised("ValidationError", {"SerializedModel"})
        ELSE IF /\ IsFiniteSet(model.courses)
                /\ \A dumped \in SerializedModel_model_dump(model) : dumped.score = 95680
                /\ \A json_data \in SerializedModel_model_dump_json(model) :
                       json_data.courses = <<<<"C", "h", "e", "m", "i", "s", "t", "r", "y">>, <<"E", "n", "g", "l", "i", "s", "h">>, <<"M", "a", "t", "h">>>>
        THEN Passed("field_serializer signature preservation works correctly",
                    {"SerializedModel"})
        ELSE Raised("AssertionError", {"SerializedModel"})

test_nested_models ==
    LET address == Address_new([street |-> StrV(<<"1", "2", "3", " ", "M", "a", "i", "n", " ", "S", "t">>), city |-> StrV(<<"S", "p", "r", "i", "n", "g", "f", "i", "e", "l", "d">>),
                                zipcode |-> StrV(<<"1", "2", "3", "4", "5">>)])
        person == Person_new([name |-> StrV(<<"B", "o", "b">>),
                              address |-> [t |-> "Address", v |-> address]])
    IN  IF IsError(address) THEN Raised("ValidationError", {"Address"})
        ELSE IF IsError(person) THEN Raised("ValidationError", {"Address", "Person"})
        ELSE IF /\ person.address.city = <<"S", "p", "r", "i", "n", "g", "f", "i", "e", "l", "d">>
                /\ Person_full_location(person) = <<"S", "p", "r", "i", "n", "g", "f", "i", "e", "l", "d", ",", " ", "1", "2", "3", "4", "5">>
        THEN Passed("Nested model type inference works correctly", {"Address", "Person"})
        ELSE Raised("AssertionError", {"Address", "Person"})

\* test_complex_validation with processed counted on the class, over the
\* calls made so far, instead of on the instance.
test_complex_validation_shared ==
    LET model == ComplexModel_new([raw_data |-> IntV(12345)])
        earlier == Cardinality({i \in 1..Len(calls) : calls[i] = "test_complex_validation"})
    IN  IF IsError(model) THEN Raised("ValidationError", {"ComplexModel"})
        ELSE IF model.raw_data = <<"1", "2", "3", "4", "5">>
                /\ model.processed + earlier = 5
        THEN Passed("Complex validation flow type tracking works correctly",
                    {"ComplexModel"})
        ELSE Raised("AssertionError", {"ComplexModel"})

test_complex_validation ==
    LET model == ComplexModel_new([raw_data |-> IntV(12345)])
        dumped == ComplexModel_model_dump(model)
    IN  IF IsError(model) THEN Raised("ValidationError", {"ComplexModel"})
        ELSE IF /\ model.raw_data = <<"1", "2", "3", "4", "5">>
                /\ model.processed = 5
                /\ Contains(ComplexModel_summary(model), <<"1", "2", "3", "4", "5">>)
                /\ dumped.raw_data = <<"1", "2", "3", "4", "5">>
        THEN Passed("Complex validation flow type tracking works correctly",
                    {"ComplexModel"})
        ELSE Raised("AssertionError", {"ComplexModel"})

(***************************************************************************)
(* test_lsp_comprehension.py: its model classes and test functions.        *)
(***************************************************************************)
None == [t |-> "None", v |-> <<>>]

\* The declared fields of each class, in order; opt marks a field with a
\* default.  Container and GenericPair are listed as parametrised.
LspFields(cls) ==
    CASE cls = "User" ->
           <<[name |-> "name", type |-> "str", opt |-> FALSE],
             [name |-> "age", type |-> "int", opt |-> FALSE],
             [name |-> "email", type |-> "str", opt |-> TRUE]>>
      [] cls = "Rectangle" ->
           <<[name |-> "width", type |-> "float", opt |-> FALSE],
             [name |-> "height", type |-> "float", opt |-> FALSE]>>
      [] cls = "Address" ->
           <<[name |-> "street", type |-> "str", opt |-> FALSE],
             [name |-> "city", type |-> "str", opt |-> FALSE],
             [name |-> "country", type |-> "str", opt |-> FALSE],
             [name |-> "zip_code", type |-> "str", opt |-> TRUE]>>
      [] cls = "Company" ->
           <<[name |-> "name", type |-> "str", opt |-> FALSE],
             [name |-> "address", type |-> "Address", opt |-> FALSE]>>
      [] cls = "Employee" ->
           <<[name |-> "name", type |-> "str", opt |-> FALSE],
             [name |-> "employee_id", type |-> "int", opt |-> FALSE],
             [name |-> "company", type |-> "Company", opt |-> FALSE],
             [name |-> "home_address", type |-> "Address", opt |-> TRUE]>>
      [] cls = "Container[int]" ->
           <<[name |-> "value", type |-> "int", opt |-> FALSE],
             [name |-> "count", type |-> "int", opt |-> TRUE]>>
      [] cls = "Container[str]" ->
           <<[name |-> "value", type |-> "str", opt |-> FALSE],
             [name |-> "count", type |-> "int", opt |-> TRUE]>>
      [] cls = "GenericPair[float]" ->
           <<[name |-> "first", type |-> "float", opt |-> FALSE],
             [name |-> "second", type |-> "float", opt |-> FALSE]>>
      [] cls = "Person" ->
           <<[name |-> "first_name", type |-> "str", opt |-> FALSE],
             [name |-> "last_name", type |-> "str", opt |-> FALSE],
             [name |-> "age", type |-> "int", opt |-> FALSE]>>
      [] cls = "Student" ->
           <<[name |-> "first_name", type |-> "str", opt |-> FALSE],
             [name |-> "last_name", type |-> "str", opt |-> FALSE],
             [name |-> "age", type |-> "int", opt |-> FALSE],
             [name |-> "student_id", type |-> "str", opt |-> FALSE],
             [name |-> "gpa", type |-> "float", opt |-> FALSE]>>
      [] cls = "Product" ->
           <<[name |-> "name", type |-> "str", opt |-> FALSE],
             [name |-> "price", type |-> "float", opt |-> FALSE],
             [name |-> "quantity", type |-> "int", opt |-> FALSE]>>
      [] cls = "Timestamp" ->
           <<[name |-> "year", type |-> "int", opt |-> FALSE],
             [name |-> "month", type |-> "int", opt |-> FALSE],
             [name |-> "day", type |-> "int", opt |-> FALSE]>>
      [] cls = "Stats" ->
           <<[name |-> "wins", type |-> "int", opt |-> FALSE],
             [name |-> "losses", type |-> "int", opt |-> FALSE]>>
      [] cls = "Team" ->
           <<[name |-> "name", type |-> "str", opt |-> FALSE],
             [name |-> "stats", type |-> "Stats", opt |-> FALSE]>>

\* The default of a field that has one: count defaults to 1, the others
\* to None.
LspDefault(field) == IF field.name = "count" THEN 1 ELSE None

\* price_must_be_positive(cls, v)
price_must_be_positive(v) ==
    IF v <= 0 THEN ValueError(<<"Price", "must", "be", "positive">>) ELSE Valid(v)

\* quantity_must_be_non_negative(cls, v)
quantity_must_be_non_negative(v) ==
    IF v < 0 THEN ValueError(<<"Quantity", "cannot", "be", "negative">>) ELSE Valid(v)

\* The validation of one field of a class: its annotated type, then the
\* constraints of Field() and the field validators declared for it.
LspField(cls, field, x) ==
    LET f == CASE field.type = "str" -> ValidateStr(x)
               [] field.type = "int" -> ValidateInt(x)
               [] field.type = "float" -> ValidateFloat(x)
               [] OTHER -> IF x.t = field.type THEN Valid(x.v)
                           ELSE Invalid(<<"Input", "should", "be", "a", "valid", field.type>>)
    IN  IF ~f.ok THEN f
        ELSE IF cls = "User" /\ field.name = "age" /\ f.v < 0
        THEN Invalid(<<"Input", "should", "be", "greater", "than", "or", "equal", "to", "0">>)
        ELSE IF cls = "User" /\ field.name = "age" /\ f.v > 150
        THEN Invalid(<<"Input", "should", "be", "less", "than", "or", "equal", "to", "150">>)
        ELSE IF cls = "Product" /\ field.name = "price" /\ Honours("field_validator")
        THEN price_must_be_positive(f.v)
        ELSE IF cls = "Product" /\ field.name = "quantity" /\ Honours("field_validator")
        THEN quantity_must_be_non_negative(f.v)
        ELSE f

\* cls(**kw) for a class of test_lsp_comprehension.py
LspModel_new(cls, kw) ==
    LET fs == LspFields(cls)
        o == [i \in 1..Len(fs) |->
                IF fs[i].name \in DOMAIN kw THEN LspField(cls, fs[i], kw[fs[i].name])
                ELSE IF fs[i].opt THEN Valid(LspDefault(fs[i]))
                ELSE Invalid(<<"Field", "required">>)]
        at(k) == CHOOSE i \in 1..Len(fs) : fs[i].name = k
    IN  IF AllValid(o)
        THEN [k \in {fs[i].name : i \in 1..Len(fs)} \cup {"cls"} |->
                 IF k = "cls" THEN cls ELSE o[at(k)].v]
        ELSE ValidationError(o)

\* Floats as the rationals they are: num / den, den a power of two.
RECURSIVE Pow2(_)
Pow2(n) == IF n <= 0 THEN 1 ELSE 2 * Pow2(n - 1)

Abs(n) == IF n < 0 THEN 0 - n ELSE n

\* n / d rounded to the nearest integer, a tie to the even one.
RoundHalfEven(n, d) ==
    LET q == n \div d
        r == n % d
    IN  IF 2 * r < d THEN q
        ELSE IF 2 * r > d THEN q + 1
        ELSE IF q % 2 = 0 THEN q ELSE q + 1

\* The exponent e that brings a / b (a, b > 0) into the range of a
\* mantissa: 2^(MantissaBits-1) <= (a / b) * 2^e < 2^MantissaBits.
Exponent(a, b) ==
    CHOOSE e \in (0 - 4 * MantissaBits)..(4 * MantissaBits) :
        /\ Pow2(MantissaBits - 1) * b * Pow2(0 - e) <= a * Pow2(e)
        /\ a * Pow2(e) < Pow2(MantissaBits) * b * Pow2(0 - e)

\* a / b of two ints, b # 0: the float nearest to the quotient.
TrueDiv(a, b) ==
    IF a = 0 THEN [num |-> 0, den |-> 1]
    ELSE LET e == Exponent(Abs(a), Abs(b))
             m == RoundHalfEven(Abs(a) * Pow2(e), Abs(b) * Pow2(0 - e))
             sign == IF (a < 0) = (b < 0) THEN 1 ELSE 0 - 1
         IN  [num |-> sign * m * Pow2(0 - e), den |-> Pow2(e)]

\* x > 0.5 of a float x
GreaterThanHalf(x) == 2 * x.num > x.den

\* The property total_games of Stats.
Stats_total_games(self) == self.wins + self.losses

\* The property win_rate of Stats.
Stats_win_rate(self) ==
    IF Stats_total_games(self) = 0 THEN [num |-> 0, den |-> 1]
    ELSE TrueDiv(self.wins, Stats_total_games(self))

\* The property is_winning_team of Team.
Team_is_winning_team(self) == GreaterThanHalf(Stats_win_rate(self.stats))

\* Each test function builds its instances, reads them, and then calls
\* reveal_type, a name the module neither defines nor imports.
test_basic_fields ==
    LET user == LspModel_new("User", [name |-> StrV(<<"A", "l", "i", "c", "e">>), age |-> IntV(30),
                                      email |-> StrV(<<"a", "l", "i", "c", "e", "@", "e", "x", "a", "m", "p", "l", "e", ".", "c", "o", "m">>)])
    IN  IF IsError(user) THEN Raised("ValidationError", {"User"})
        ELSE Raised("NameError", {"User"})

test_computed_fields ==
    LET rect == LspModel_new("Rectangle", [width |-> FloatV(10000), height |-> FloatV(5000)])
    IN  IF IsError(rect) THEN Raised("ValidationError", {"Rectangle"})
        ELSE Raised("NameError", {"Rectangle"})

lsp_test_nested_models ==
    LET work == LspModel_new("Address", [street |-> StrV(<<"1", "2", "3", " ", "M", "a", "i", "n", " ", "S", "t">>),
                                         city |-> StrV(<<"S", "p", "r", "i", "n", "g", "f", "i", "e", "l", "d">>),
                                         country |-> StrV(<<"U", "S", "A">>)])
        company == LspModel_new("Company", [name |-> StrV(<<"A", "c", "m", "e", " ", "C", "o", "r", "p">>),
                                            address |-> [t |-> "Address", v |-> work]])
        home == LspModel_new("Address", [street |-> StrV(<<"4", "5", "6", " ", "O", "a", "k", " ", "A", "v", "e">>),
                                         city |-> StrV(<<"S", "h", "e", "l", "b", "y", "v", "i", "l", "l", "e">>),
                                         country |-> StrV(<<"U", "S", "A">>)])
        employee == LspModel_new("Employee",
                        [name |-> StrV(<<"B", "o", "b">>), employee_id |-> IntV(12345),
                         company |-> [t |-> "Company", v |-> company],
                         home_address |-> [t |-> "Address", v |-> home]])
    IN  IF IsError(work) THEN Raised("ValidationError", {"Address"})
        ELSE IF IsError(company) THEN Raised("ValidationError", {"Address", "Company"})
        ELSE IF IsError(home) THEN Raised("ValidationError", {"Address", "Company"})
        ELSE IF IsError(employee)
        THEN Raised("ValidationError", {"Address", "Company", "Employee"})
        ELSE Raised("NameError", {"Address", "Company", "Employee"})

test_generic_models ==
    LET int_container == LspModel_new("Container[int]", [value |-> IntV(42), count |-> IntV(1)])
        str_container == LspModel_new("Container[str]", [value |-> StrV(<<"h", "e", "l", "l", "o">>)])
        pair == LspModel_new("GenericPair[float]", [first |-> FloatV(1500), second |-> FloatV(2500)])
    IN  IF IsError(int_container) \/ IsError(str_container)
        THEN Raised("ValidationError", {"Container"})
        ELSE IF IsError(pair) THEN Raised("ValidationError", {"Container", "GenericPair"})
        ELSE Raised("NameError", {"Container", "GenericPair"})

test_inheritance ==
    LET student == LspModel_new("Student",
                       [first_name |-> StrV(<<"J", "a", "n", "e">>), last_name |-> StrV(<<"D", "o", "e">>),
                        age |-> IntV(20), student_id |-> StrV(<<"S", "1", "2", "3", "4", "5">>),
                        gpa |-> FloatV(3800)])
    IN  IF IsError(student) THEN Raised("ValidationError", {"Student"})
        ELSE Raised("NameError", {"Student"})

test_validators ==
    LET product == LspModel_new("Product", [name |-> StrV(<<"W", "i", "d", "g", "e", "t">>), price |-> FloatV(9990),
                                            quantity |-> IntV(10)])
    IN  IF IsError(product) THEN Raised("ValidationError", {"Product"})
        ELSE Raised("NameError", {"Product"})

test_serializers ==
    LET ts == LspModel_new("Timestamp", [year |-> IntV(2024), month |-> IntV(11),
                                         day |-> IntV(20)])
    IN  IF IsError(ts) THEN Raised("ValidationError", {"Timestamp"})
        ELSE Raised("NameError", {"Timestamp"})

test_complex_nested ==
    LET stats == LspModel_new("Stats", [wins |-> IntV(15), losses |-> IntV(5)])
        team == LspModel_new("Team", [name |-> StrV(<<"C", "h", "a", "m", "p", "i", "o", "n", "s">>),
                                      stats |-> [t |-> "Stats", v |-> stats]])
    IN  IF IsError(stats) THEN Raised("ValidationError", {"Stats"})
        ELSE IF IsError(team) THEN Raised("ValidationError", {"Stats", "Team"})
        ELSE Raised("NameError", {"Stats", "Team"})

\* User(...), user.model_dump(), user.model_dump_json(),
\* User.model_validate({...}), then reveal_type.
test_model_methods ==
    LET user == LspModel_new("User", [name |-> StrV(<<"T", "e", "s", "t">>), age |-> IntV(25)])
        validated == LspModel_new("User", [name |-> StrV(<<"T", "e", "s", "t", "2">>), age |-> IntV(30)])
    IN  IF IsError(user) \/ IsError(validated) THEN Raised("ValidationError", {"User"})
        ELSE Raised("NameError", {"User"})

(***************************************************************************)
(* The two scripts: their test functions, model classes and __main__       *)
(* blocks.                                                                 *)
(***************************************************************************)
Scripts == {"test_pydantic_lsp_features", "test_lsp_comprehension"}

\* The test functions each script defines, in the order of definition.
FeaturesTests ==
    <<"test_field_descriptor", "test_computed_field", "test_generic_model",
      "test_field_validator", "test_model_validator", "test_field_serializer",
      "test_nested_models", "test_complex_validation">>
LspTests ==
    <<"test_basic_fields", "test_computed_fields", "lsp_test_nested_models",
      "test_generic_models", "test_inheritance", "test_validators",
      "test_serializers", "test_complex_nested", "test_model_methods">>
TestFunctions(s) == IF s = "test_pydantic_lsp_features" THEN FeaturesTests ELSE LspTests

\* The class statements of each script, in order.
FeaturesClasses ==
    <<"UserWithFields", "Rectangle", "GenericContainer", "ValidatedModel", "Square",
      "FlexibleInput", "SerializedModel", "Address", "Person", "ComplexModel">>
LspClasses ==
    <<"User", "Rectangle", "Address", "Company", "Employee", "Container", "GenericPair",
      "Person", "Student", "Product", "Timestamp", "Stats", "Team">>
Classes(s) == IF s = "test_pydantic_lsp_features" THEN FeaturesClasses ELSE LspClasses

Range(q) == {q[i] : i \in 1..Len(q)}

\* A call of the test function named fn.
Test(fn) ==
    CASE fn = "test_field_descriptor" -> test_field_descriptor
      [] fn = "test_computed_field" -> test_computed_field
      [] fn = "test_generic_model" -> test_generic_model
      [] fn = "test_field_validator" -> test_field_validator
      [] fn = "test_model_validator" -> test_model_validator
      [] fn = "test_field_serializer" -> test_field_serializer
      [] fn = "test_nested_models" -> test_nested_models
      [] fn = "test_complex_validation" -> test_complex_validation
      [] fn = "test_basic_fields" -> test_basic_fields
      [] fn = "test_computed_fields" -> test_computed_fields
      [] fn = "lsp_test_nested_models" -> lsp_test_nested_models
      [] fn = "test_generic_models" -> test_generic_models
      [] fn = "test_inheritance" -> test_inheritance
      [] fn = "test_validators" -> test_validators
      [] fn = "test_serializers" -> test_serializers
      [] fn = "test_complex_nested" -> test_complex_nested
      [] fn = "test_model_methods" -> test_model_methods

print(line) == [op |-> "print", line |-> line, fn |-> ""]
call(fn) == [op |-> "call", line |-> "", fn |-> fn]

\* The __main__ block with the first two calls in the other order.
FeaturesMain_reordered ==
    <<print("Testing Pydantic LSP-Friendly Type Stubs\n=================================================="),
      call("test_computed_field"),
      call("test_field_descriptor"),
      call("test_generic_model"),
      call("test_field_validator"),
      call("test_model_validator"),
      call("test_field_serializer"),
      call("test_nested_models"),
      call("test_complex_validation"),
      print("\n=================================================="),
      print("All LSP feature tests passed!")>>

\* if __name__ == "__main__": of test_pydantic_lsp_features.py
FeaturesMain ==
    <<print("Testing Pydantic LSP-Friendly Type Stubs\n=================================================="),
      call("test_field_descriptor"),
      call("test_computed_field"),
      call("test_generic_model"),
      call("test_field_validator"),
      call("test_model_validator"),
      call("test_field_serializer"),
      call("test_nested_models"),
      call("test_complex_validation"),
      print("\n=================================================="),
      print("All LSP feature tests passed!"),
      print("\nYour LSP should now provide:"),
      print("  Accurate type inference for fields on instances"),
      print("  Property types for computed_field decorators"),
      print("  Generic model parameter inference"),
      print("  Preserved signatures for validators and serializers"),
      print("  Nested model navigation"),
      print("  Full validation pipeline type tracking")>>

\* The __main__ block calling the test functions it announces.
LspMain_calling ==
    <<print("Running LSP comprehension tests..."),
      call("test_basic_fields"),
      call("test_computed_fields"),
      print("\nAll type hints should be correctly understood by LSP!")>>

\* if __name__ == "__main__": of test_lsp_comprehension.py
LspMain ==
    <<print("Running LSP comprehension tests..."),
      print("\nAll type hints should be correctly understood by LSP!"),
      print("Run with: mypy --strict test_lsp_comprehension.py"),
      print("Or use your IDE's type checker to verify autocomplete works correctly")>>

Main(s) == IF s = "test_pydantic_lsp_features" THEN FeaturesMain ELSE LspMain

(***************************************************************************)
(* The script executed directly.                                           *)
(***************************************************************************)
NoObject == [cls |-> "none"]
NoInput == [cls |-> "none"]
NoResult == [op |-> "none", name |-> "", value |-> <<>>]
NoCall == [fn |-> "none"]

IdleMain == pc = 0 /\ status = "none" /\ raised = "none" /\ out = <<>>
IdleHarness == ncalls = 0 /\ last = NoCall /\ results = <<>> /\ instBy = <<>>
IdleClient == obj = NoObject /\ inp = NoInput /\ res = NoResult

MainInit ==
    /\ mode = "main"
    /\ script \in Scripts
    /\ lib \in SUBSET Features
    /\ pc = 1 /\ status = "running" /\ raised = "none" /\ out = <<>>
    /\ calls = <<>>
    /\ IdleHarness /\ IdleClient

\* A print statement of the __main__ block.
MainPrint ==
    /\ mode = "main" /\ status = "running"
    /\ pc <= Len(Main(script))
    /\ Main(script)[pc].op = "print"
    /\ out' = Append(out, Main(script)[pc].line)
    /\ pc' = pc + 1
    /\ UNCHANGED <<mode, script, lib, status, raised, calls, ncalls, last, results,
                   instBy, obj, inp, res>>

\* A run that goes on with the next statement whatever the called test
\* function raised.
Returned_going_on(r) ==
    /\ out' = out \o r.printed
    /\ pc' = pc + 1
    /\ UNCHANGED <<status, raised>>

\* What the result r of a called test function does to the run: what it
\* printed is on standard output; an exception it raised ends the run.
Returned(r) ==
    /\ out' = out \o r.printed
    /\ IF r.raised = "none"
       THEN pc' = pc + 1 /\ UNCHANGED <<status, raised>>
       ELSE status' = "exit1" /\ raised' = r.raised /\ UNCHANGED pc

\* A call of a test function from the __main__ block.
MainCall ==
    /\ mode = "main" /\ status = "running"
    /\ pc <= Len(Main(script))
    /\ Main(script)[pc].op = "call"
    /\ calls' = Append(calls, Main(script)[pc].fn)
    /\ Returned(Test(Main(script)[pc].fn))
    /\ UNCHANGED <<mode, script, lib, ncalls, last, results, instBy, obj, inp, res>>

\* The end of the __main__ block.
MainExit ==
    /\ mode = "main" /\ status = "running"
    /\ pc = Len(Main(script)) + 1
    /\ status' = "exit0"
    /\ UNCHANGED <<mode, script, lib, pc, raised, out, calls, ncalls, last, results,
                   instBy, obj, inp, res>>

MainNext == MainPrint \/ MainCall \/ MainExit

(***************************************************************************)
(* The module imported and its test functions called by a collector.       *)
(***************************************************************************)
HarnessInit ==
    /\ mode = "harness"
    /\ script \in Scripts
    /\ lib \in SUBSET Features
    /\ ncalls = 0 /\ last = NoCall /\ calls = <<>>
    /\ results = [fn \in Range(TestFunctions(script)) |-> {}]
    /\ instBy = [c \in Range(Classes(script)) |-> {}]
    /\ IdleMain /\ IdleClient

\* What the collector records of the result r of a call of fn.
Collected(fn, r) ==
    /\ last' = [fn |-> fn, raised |-> r.raised, printed |-> r.printed]
    /\ calls' = Append(calls, fn)
    /\ results' = [results EXCEPT ![fn] = @ \cup {[raised |-> r.raised,
                                                   printed |-> r.printed]}]
    /\ instBy' = [c \in DOMAIN instBy |->
                     IF c \in r.made THEN instBy[c] \cup {fn} ELSE instBy[c]]

\* One call of a test function.
HarnessCall ==
    /\ mode = "harness"
    /\ ncalls < MaxCalls
    /\ \E fn \in Range(TestFunctions(script)) : Collected(fn, Test(fn))
    /\ ncalls' = ncalls + 1
    /\ UNCHANGED <<mode, script, lib, pc, status, raised, out, obj, inp, res>>

HarnessNext == HarnessCall

(***************************************************************************)
(* The model classes of a script used by a client: one instance is built   *)
(* from keyword arguments drawn from bounded sets, then read, assigned and *)
(* dumped.  The library is the documented one.                             *)
(***************************************************************************)
InputChars == {"a", "B", " ", "3", "@"}
Strs == UNION {[1..n -> InputChars] : n \in 0..MaxStrLen}
Ints == -1..MaxInt
RawStrs == {StrV(s) : s \in Strs}
RawInts == {IntV(n) : n \in Ints}
Raw == RawStrs \cup RawInts
\* Numbers given to float fields: ints, and floats in steps of a half.
Numbers == RawInts \cup {FloatV(500 * k) : k \in Ints}
\* Scores around the 95.678 of test_field_serializer.
Scores == {FloatV(95678 + k) : k \in (0 - 2 * MaxInt)..MaxInt}
CourseNames == {<<"a">>, <<"B">>, <<"a", "B">>}

\* The keyword arguments of the test functions, and those with one field
\* replaced.
Vary(base, f, S) == {[base EXCEPT ![f] = v] : v \in S}
UserWithFields_kw ==
    [name |-> StrV(<<"A", "l", "i", "c", "e">>), age |-> IntV(30),
     email |-> StrV(<<"a", "l", "i", "c", "e", "@", "e", "x", "a", "m", "p", "l", "e", ".", "c", "o", "m">>)]
ValidatedModel_kw ==
    [name |-> StrV(<<" ", " ", "A", "l", "i", "c", "e", " ", " ">>), age |-> StrV(<<"3", "0">>),
     email |-> StrV(<<"A", "L", "I", "C", "E", "@", "E", "X", "A", "M", "P", "L", "E", ".", "C", "O", "M">>)]
Address_kw ==
    [street |-> StrV(<<"1", "2", "3", " ", "M", "a", "i", "n", " ", "S", "t">>),
     city |-> StrV(<<"S", "p", "r", "i", "n", "g", "f", "i", "e", "l", "d">>),
     zipcode |-> StrV(<<"1", "2", "3", "4", "5">>)]

Input(cls, T, S) == {[cls |-> cls, T |-> T, kw |-> kw] : kw \in S}

ClientInputs ==
    Input("UserWithFields", "",
          Vary(UserWithFields_kw, "name", Raw)
            \cup Vary(UserWithFields_kw, "age", Raw \cup {IntV(150), IntV(151)})
            \cup Vary(UserWithFields_kw, "email", RawStrs))
    \cup Input("Rectangle", "",
          {[width |-> w, length |-> l] : w, l \in RawInts}
            \cup {[width |-> w, length |-> IntV(4)] : w \in RawStrs})
    \cup UNION {Input("GenericContainer", T,
                      {[value |-> v] : v \in Raw}
                        \cup {[value |-> IntV(3), count |-> c] : c \in RawInts})
                : T \in {"int", "str"}}
    \cup Input("ValidatedModel", "",
          Vary(ValidatedModel_kw, "name", Raw)
            \cup Vary(ValidatedModel_kw, "age", Raw)
            \cup Vary(ValidatedModel_kw, "email", RawStrs))
    \cup Input("Square", "", {[width |-> w, height |-> h] : w, h \in Numbers})
    \cup Input("SerializedModel", "",
          {[courses |-> [t |-> "set", v |-> c], score |-> m] :
              c \in SUBSET CourseNames, m \in Scores})
    \cup Input("Address", "",
          Vary(Address_kw, "street", Raw)
            \cup Vary(Address_kw, "city", Raw)
            \cup Vary(Address_kw, "zipcode", RawStrs))
    \cup Input("ComplexModel", "",
          {[raw_data |-> v] : v \in Raw \cup {IntV(12345)}}
            \cup {[raw_data |-> StrV(<<"a">>), processed |-> p] : p \in RawInts})

\* The model classes of test_lsp_comprehension.py a client builds: Stats
\* from counts, and Team with such a Stats.
Counts == (0 - 1)..MaxCount
Stats_kw == {[wins |-> IntV(w), losses |-> IntV(l)] : w, l \in Counts}
LspClientInputs ==
    Input("Stats", "", Stats_kw)
    \cup Input("Team", "",
            {[name |-> StrV(<<"C", "h", "a", "m", "p", "i", "o", "n", "s">>),
              stats |-> [t |-> "Stats", v |-> LspModel_new("Stats", kw)]] :
                kw \in Stats_kw})

InputsOf(s) == IF s = "test_pydantic_lsp_features" THEN ClientInputs ELSE LspClientInputs

\* cls(**kw)
Construct(i) ==
    CASE i.cls = "UserWithFields" -> UserWithFields_new(i.kw)
      [] i.cls = "Rectangle" -> Rectangle_new(i.kw)
      [] i.cls = "GenericContainer" -> GenericContainer_new(i.T, i.kw)
      [] i.cls = "ValidatedModel" -> ValidatedModel_new(i.kw)
      [] i.cls = "Square" -> Square_new(i.kw)
      [] i.cls = "SerializedModel" -> SerializedModel_new(i.kw)
      [] i.cls = "Address" -> Address_new(i.kw)
      [] i.cls = "ComplexModel" -> ComplexModel_new(i.kw)
      [] i.cls \in {"Stats", "Team"} -> LspModel_new(i.cls, i.kw)

IsInstance(o) == o.cls \notin {"none", "ValidationError"}

\* The attributes a client reads: the fields and the properties.
AttrNames(o) ==
    (DOMAIN o \ {"cls", "T"})
      \cup (IF o.cls = "Rectangle" THEN {"area", "perimeter"} ELSE {})
      \cup (IF o.cls = "ComplexModel" THEN {"summary"} ELSE {})
      \cup (IF o.cls = "Stats" THEN {"total_games", "win_rate"} ELSE {})
      \cup (IF o.cls = "Team" THEN {"is_winning_team"} ELSE {})

\* o.name with area and perimeter kept from the time of construction.
Attr_retained(o, name) ==
    IF o.cls = "Rectangle" /\ name = "area" THEN Rectangle_area(Construct(inp))
    ELSE IF o.cls = "Rectangle" /\ name = "perimeter"
    THEN Rectangle_perimeter(Construct(inp))
    ELSE IF o.cls = "ComplexModel" /\ name = "summary" THEN ComplexModel_summary(o)
    ELSE IF o.cls = "Stats" /\ name = "total_games" THEN Stats_total_games(o)
    ELSE IF o.cls = "Stats" /\ name = "win_rate" THEN Stats_win_rate(o)
    ELSE IF o.cls = "Team" /\ name = "is_winning_team" THEN Team_is_winning_team(o)
    ELSE o[name]

\* o.name: a property is computed by its getter, a field is looked up.
Attr(o, name) ==
    IF o.cls = "Rectangle" /\ name = "area" THEN Rectangle_area(o)
    ELSE IF o.cls = "Rectangle" /\ name = "perimeter" THEN Rectangle_perimeter(o)
    ELSE IF o.cls = "ComplexModel" /\ name = "summary" THEN ComplexModel_summary(o)
    ELSE IF o.cls = "Stats" /\ name = "total_games" THEN Stats_total_games(o)
    ELSE IF o.cls = "Stats" /\ name = "win_rate" THEN Stats_win_rate(o)
    ELSE IF o.cls = "Team" /\ name = "is_winning_team" THEN Team_is_winning_team(o)
    ELSE o[name]

\* o.model_dump(): the dicts it can return.
Dumps(o) ==
    CASE o.cls = "Rectangle" -> {Rectangle_model_dump(o)}
      [] o.cls = "SerializedModel" -> SerializedModel_model_dump(o)
      [] o.cls = "ComplexModel" -> {ComplexModel_model_dump(o)}

ClientInit ==
    /\ mode = "client"
    /\ script \in Scripts
    /\ lib = Features
    /\ calls = <<>>
    /\ IdleMain /\ IdleHarness /\ IdleClient

\* cls(**kw): the instance, or the ValidationError the call raised.
New ==
    /\ mode = "client" /\ obj = NoObject
    /\ \E i \in InputsOf(script) : obj' = Construct(i) /\ inp' = i
    /\ res' = NoResult
    /\ UNCHANGED <<mode, script, lib, pc, status, raised, out, calls, ncalls, last,
                   results, instBy>>

\* value = obj.name
GetAttr ==
    /\ mode = "client" /\ IsInstance(obj)
    /\ \E name \in AttrNames(obj) :
          res' = [op |-> "getattr", name |-> name, value |-> Attr(obj, name)]
    /\ UNCHANGED <<mode, script, lib, pc, status, raised, out, calls, ncalls, last,
                   results, instBy, obj, inp>>

\* rect.width = n, rect.length = n: the models are not frozen and do not
\* validate assignments, the value is stored as given.
SetAttr ==
    /\ mode = "client" /\ obj.cls = "Rectangle"
    /\ \E name \in {"width", "length"}, n \in Ints :
          /\ obj' = [obj EXCEPT ![name] = n]
          /\ res' = [op |-> "setattr", name |-> name, value |-> n]
    /\ UNCHANGED <<mode, script, lib, pc, status, raised, out, calls, ncalls, last,
                   results, instBy, inp>>

\* data = obj.model_dump() with the serialized values written back to the
\* fields of the instance.
ModelDump_in_place ==
    /\ mode = "client" /\ obj.cls \in {"Rectangle", "SerializedModel", "ComplexModel"}
    /\ \E d \in Dumps(obj) :
          /\ res' = [op |-> "model_dump", name |-> "", value |-> d]
          /\ obj' = [k \in DOMAIN obj |->
                        IF k \in DOMAIN d \ {"cls"} THEN d[k] ELSE obj[k]]
    /\ UNCHANGED <<mode, script, lib, pc, status, raised, out, calls, ncalls, last,
                   results, instBy, inp>>

\* data = obj.model_dump()
ModelDump ==
    /\ mode = "client" /\ obj.cls \in {"Rectangle", "SerializedModel", "ComplexModel"}
    /\ \E d \in Dumps(obj) : res' = [op |-> "model_dump", name |-> "", value |-> d]
    /\ UNCHANGED <<mode, script, lib, pc, status, raised, out, calls, ncalls, last,
                   results, instBy, obj, inp>>

\* data = json.loads(obj.model_dump_json())
ModelDumpJson ==
    /\ mode = "client" /\ obj.cls = "SerializedModel"
    /\ \E d \in SerializedModel_model_dump_json(obj) :
          res' = [op |-> "model_dump_json", name |-> "", value |-> d]
    /\ UNCHANGED <<mode, script, lib, pc, status, raised, out, calls, ncalls, last,
                   results, instBy, obj, inp>>

\* result = ValidatedModel.validate_name(s), called on the class with the
\* str a ValidatedModel was built from: what it returned, or that it
\* raised ValueError.
ValidateNameCall ==
    /\ mode = "client" /\ inp.cls = "ValidatedModel" /\ inp.kw.name.t = "str"
    /\ LET s == inp.kw.name.v
       IN  res' = [op |-> "validate_name", name |-> "",
                   value |-> [arg |-> s, returned |-> validate_name(s).ok,
                              result |-> validate_name(s).v]]
    /\ UNCHANGED <<mode, script, lib, pc, status, raised, out, calls, ncalls, last,
                   results, instBy, obj, inp>>

ClientNext ==
    New \/ GetAttr \/ SetAttr \/ ModelDump \/ ModelDumpJson \/ ValidateNameCall

(***************************************************************************)
(* Specifications.                                                         *)
(***************************************************************************)
Init == MainInit \/ HarnessInit \/ ClientInit
Next == MainNext \/ HarnessNext \/ ClientNext
Spec == Init /\ [][Next]_vars

\* A direct run: the interpreter executes the __main__ block statement
\* after statement until it ends or an exception leaves it.
RunSpec == MainInit /\ [][MainNext]_vars /\ WF_vars(MainNext)
HarnessSpec == HarnessInit /\ [][HarnessNext]_vars
ClientSpec == ClientInit /\ [][ClientNext]_vars

(***************************************************************************)
(* The claims.                                                             *)
(***************************************************************************)
\* How often fn has been invoked.
Invocations(fn) == Cardinality({i \in 1..Len(calls) : calls[i] = fn})

Exited == status \in {"exit0", "exit1"}

\* C1, as stated: a direct run of either script that completes has invoked
\* every test function the script defines exactly once.
C1_EveryTestInvokedOnce ==
    (mode = "main" /\ lib = Features /\ status = "exit0")
        => \A fn \in Range(TestFunctions(script)) : Invocations(fn) = 1

\* C1, as amended: a direct run of test_pydantic_lsp_features.py invokes
\* its test functions in the order of their definition, each at most once,
\* and a run that completes has invoked all eight and printed a line for
\* each statement of the __main__ block; a direct run of
\* test_lsp_comprehension.py invokes none of its test functions and prints
\* its four lines.
C1_FixedOrder ==
    mode = "main" =>
        /\ script = "test_pydantic_lsp_features" =>
              /\ Len(calls) <= Len(FeaturesTests)
              /\ calls = SubSeq(FeaturesTests, 1, Len(calls))
              /\ status = "exit0" => calls = FeaturesTests
        /\ script = "test_lsp_comprehension" => calls = <<>>
        /\ status = "exit0" => Len(out) = Len(Main(script))

\* A direct run of test_pydantic_lsp_features.py has completed after all
\* eight calls.
C1_Witness ==
    /\ mode = "main" /\ script = "test_pydantic_lsp_features"
    /\ status = "exit0" /\ calls = FeaturesTests

\* What holds of the exit status of a direct run.
ExitStatusRight ==
    mode = "main" =>
        /\ status = "exit1" =>
              /\ raised \in {"AssertionError", "ValidationError"}
              /\ calls # <<>>
              /\ Test(calls[Len(calls)]).raised = raised
        /\ status = "exit0" =>
              /\ raised = "none"
              /\ pc = Len(Main(script)) + 1
              /\ \A i \in 1..Len(calls) : Test(calls[i]).raised = "none"

\* C2: every direct run ends; it ends with a non-zero status only when the
\* test function called last raised, and what it raised is an
\* AssertionError or a ValidationError; a run in which no called test
\* function raises ends with status zero after the last statement.
C2_ExitStatus == []ExitStatusRight /\ <>Exited

\* A direct run has ended with a non-zero status.
C2_Witness == mode = "main" /\ status = "exit1" /\ raised = "AssertionError"

\* The classes whose fields carry no validator, and the annotated type of
\* each of their fields.
PlainClasses == {"UserWithFields", "GenericContainer", "Address"}
FieldType(o, name) ==
    CASE o.cls = "UserWithFields" -> (IF name = "age" THEN "int" ELSE "str")
      [] o.cls = "GenericContainer" -> (IF name = "count" THEN "int" ELSE o.T)
      [] o.cls = "Address" -> "str"

\* A field of a plain class, given at construction, has just been read.
PlainFieldRead ==
    /\ mode = "client" /\ res.op = "getattr"
    /\ obj.cls \in PlainClasses
    /\ res.name \in DOMAIN inp.kw

\* C3, as stated: reading a plain field of a constructed instance returns
\* the value v that was given for it, for every accepted v.
C3_RoundTripsEveryInput ==
    PlainFieldRead =>
        PyEq([t |-> FieldType(obj, res.name), v |-> res.value], inp.kw[res.name])

\* C3, as amended: reading a plain field returns the value given for it
\* when that value has the field's annotated type; the only accepted
\* values of another type are integer literals given as str to an int
\* field, and reading returns the integer they denote, not the str.
C3_RoundTripsDeclaredType ==
    PlainFieldRead =>
        LET x == inp.kw[res.name]
            type == FieldType(obj, res.name)
        IN  /\ x.t = type => res.value = x.v
            /\ x.t # type =>
                  /\ type = "int" /\ x.t = "str" /\ IsIntLiteral(x.v)
                  /\ res.value = ParseInt(x.v)
                  /\ ~PyEq(IntV(res.value), x)

\* The age of a UserWithFields built from a str has been read.
C3_Witness ==
    /\ PlainFieldRead /\ obj.cls = "UserWithFields"
    /\ res.name = "age" /\ inp.kw.age.t = "str"

\* C4: whenever area or perimeter of a Rectangle has been read, after the
\* construction and after any assignments to width and length, the value
\* read is width * length, respectively 2 * (width + length), of the
\* values the fields hold at the time of the read.
C4_RecomputedOnAccess ==
    (mode = "client" /\ obj.cls = "Rectangle" /\ res.op = "getattr") =>
        /\ res.name = "area" => res.value = obj.width * obj.length
        /\ res.name = "perimeter" => res.value = 2 * (obj.width + obj.length)

\* area has been read after an assignment changed the product of the
\* fields.
C4_Witness ==
    /\ mode = "client" /\ obj.cls = "Rectangle"
    /\ res.op = "getattr" /\ res.name = "area"
    /\ obj.width * obj.length # Rectangle_area(Construct(inp))

\* A ValidatedModel, or a ComplexModel, has been constructed.
BeforeValidated(cls) == mode = "client" /\ obj.cls = cls /\ inp.cls = cls

\* C5, as stated: the value stored in a field with a mode='before'
\* validator is the value that validator returned for the raw input, for
\* ValidatedModel.age and for ComplexModel.raw_data.
C5_StoredIsBeforeReturn ==
    /\ BeforeValidated("ValidatedModel") =>
          PyEq(IntV(obj.age), parse_age(inp.kw.age).v)
    /\ BeforeValidated("ComplexModel") =>
          PyEq(StrV(obj.raw_data), preprocess_data(inp.kw.raw_data))

\* C5, as amended: the before validator receives the raw input, an int as
\* well as a str, and what it returns is validated as the annotated type;
\* the stored ValidatedModel.age is the value parse_age returned, and the
\* stored ComplexModel.raw_data is what the after validator validate_data
\* makes of the value preprocess_data returned: stripped and upper-cased.
C5_StoredIsValidatedBeforeReturn ==
    /\ BeforeValidated("ValidatedModel") =>
          /\ parse_age(inp.kw.age).ok
          /\ PyEq(IntV(obj.age), parse_age(inp.kw.age).v)
    /\ BeforeValidated("ComplexModel") =>
          /\ obj.raw_data = Upper(Strip(preprocess_data(inp.kw.raw_data).v))
          /\ obj.raw_data # <<>>
    /\ (mode = "client" /\ inp.cls = "ComplexModel" /\ inp.kw.raw_data.t = "int") =>
          /\ ~IsError(obj)
          /\ obj.raw_data = PyStr(inp.kw.raw_data.v)

\* A ComplexModel built from a str that validate_data changes.
C5_Witness ==
    /\ BeforeValidated("ComplexModel")
    /\ inp.kw.raw_data.t = "str"
    /\ obj.raw_data # inp.kw.raw_data.v

\* A score rounded to two places: a multiple of a hundredth not further
\* than half a hundredth from the stored score.
RoundedTo2(dumped, score) ==
    /\ dumped % 10 = 0
    /\ dumped - score <= 5 /\ score - dumped <= 5

\* A list that holds the elements of a set once each, in ascending order.
SortedListOf(list, S) ==
    /\ Len(list) = Cardinality(S)
    /\ {list[i] : i \in 1..Len(list)} = S
    /\ \A i, j \in 1..Len(list) : i < j => StrLess(list[i], list[j])

\* What a dump that has just been made holds, and what the instance holds.
DumpIsSerialized ==
    (mode = "client" /\ res.op \in {"model_dump", "model_dump_json"}) =>
        /\ obj.cls = "SerializedModel" =>
              /\ RoundedTo2(res.value.score, obj.score)
              /\ res.op = "model_dump" => res.value.courses = obj.courses
              /\ res.op = "model_dump_json" =>
                    SortedListOf(res.value.courses, obj.courses)
              /\ IsFiniteSet(obj.courses)
              /\ obj = Construct(inp)
        /\ obj.cls = "ComplexModel" =>
              /\ res.value.raw_data = Lower(obj.raw_data)
              /\ obj.raw_data = Upper(obj.raw_data)
              /\ obj = Construct(inp)

\* C6: a dump of a SerializedModel or a ComplexModel holds the serializers'
\* results (score rounded to two places, courses as a sorted list in JSON
\* mode and as the set otherwise, raw_data lower-cased), and no dump call
\* changes a stored attribute: after any number of dumps the instance is
\* as it was constructed, courses a set, score and raw_data as stored.
C6_SerializedNotStored ==
    /\ []DumpIsSerialized
    /\ [][res'.op \in {"model_dump", "model_dump_json"} => obj' = obj]_vars

\* A JSON dump whose score and courses both differ from what is stored.
C6_Witness ==
    /\ mode = "client" /\ obj.cls = "SerializedModel"
    /\ res.op = "model_dump_json"
    /\ res.value.score # obj.score
    /\ Cardinality(obj.courses) > 1

\* C7: Square(width=w, height=h) gives an instance exactly when w == h and
\* otherwise raises the validation error, whose message contains 'must
\* match'; test_model_validator catches that error and goes on to return
\* and print its line, and where the construction of the unequal square
\* succeeds (a library that does not run the model validator) the call
\* ends in an AssertionError and prints nothing.
C7_SquareMustMatch ==
    /\ (mode = "client" /\ inp.cls = "Square") =>
          /\ IsInstance(obj) <=> PyEq(inp.kw.width, inp.kw.height)
          /\ ~PyEq(inp.kw.width, inp.kw.height) =>
                /\ IsError(obj)
                /\ Contains(obj.msg, <<"must", "match">>)
    /\ (mode = "harness" /\ last.fn = "test_model_validator") =>
          /\ Honours("model_validator") =>
                /\ last.raised = "none"
                /\ last.printed = <<"model_validator signature preservation works correctly">>
          /\ ~Honours("model_validator") =>
                /\ last.raised = "AssertionError"
                /\ last.printed = <<>>

\* The construction of a Square from an int and a float that differ has
\* raised.
C7_Witness ==
    /\ mode = "client" /\ inp.cls = "Square" /\ IsError(obj)
    /\ inp.kw.width.t = "int" /\ inp.kw.height.t = "float"

\* test_model_validator has ended in an AssertionError.
C7_Uncaught ==
    /\ mode = "harness" /\ last.fn = "test_model_validator"
    /\ last.raised = "AssertionError"

\* C8: model_dump() of a Rectangle holds the key 'area' beside the plain
\* fields; data['width'] and data['length'] are the fields of the instance
\* and data['area'] is width * length, the value that reading the property
\* area on the same instance gives.
C8_ComputedFieldDumped ==
    (mode = "client" /\ obj.cls = "Rectangle" /\ res.op = "model_dump") =>
        /\ {"width", "length", "area"} \subseteq DOMAIN res.value
        /\ res.value.width = obj.width
        /\ res.value.length = obj.length
        /\ res.value.area = obj.width * obj.length
        /\ res.value.area = Attr(obj, "area")

\* Rectangle(width=3, length=4) has been dumped.
C8_Witness ==
    /\ mode = "client" /\ obj.cls = "Rectangle" /\ res.op = "model_dump"
    /\ obj = Construct(inp)
    /\ obj.width = 3 /\ obj.length = 4 /\ res.value.area = 12

\* The classes a script defines are defined once each.
DefinedOnce(s) ==
    \A i, j \in 1..Len(Classes(s)) : Classes(s)[i] = Classes(s)[j] => i = j

\* C9, as stated: in each script no model class is instantiated by more
\* than one test function.
C9_SingleTestPerClass ==
    mode = "harness" => \A c \in DOMAIN instBy : Cardinality(instBy[c]) <= 1

\* C9, as amended: each class is defined once per script, and every class
\* is instantiated by at most one test function except User of
\* test_lsp_comprehension.py, which test_basic_fields and
\* test_model_methods both instantiate.
C9_SingleTestPerClassButUser ==
    mode = "harness" =>
        /\ DefinedOnce(script)
        /\ \A c \in DOMAIN instBy :
              IF script = "test_lsp_comprehension" /\ c = "User"
              THEN instBy[c] \subseteq {"test_basic_fields", "test_model_methods"}
              ELSE Cardinality(instBy[c]) <= 1

\* Both test functions that build a User have been called.
C9_Witness ==
    /\ mode = "harness" /\ script = "test_lsp_comprehension"
    /\ instBy["User"] = {"test_basic_fields", "test_model_methods"}

C11_PipelineOrder ==
    BeforeValidated("ComplexModel") =>
        /\ obj.raw_data = Upper(Strip(preprocess_data(inp.kw.raw_data).v))
        /\ obj.processed = Len(obj.raw_data)
        /\ obj.processed > 0
        /\ (res.op = "getattr" /\ res.name = "summary") =>
              res.value = Prefix(obj.raw_data, 10) \o <<".", ".", ".", " ", "(">>
                            \o PyStr(Len(obj.raw_data))
                            \o <<" ", "c", "h", "a", "r", "s", ")">>

\* summary has been read of a ComplexModel whose stored string is shorter
\* than the str it was built from.
C11_Witness ==
    /\ BeforeValidated("ComplexModel")
    /\ inp.kw.raw_data.t = "str"
    /\ obj.processed < Len(inp.kw.raw_data.v)
    /\ res.op = "getattr" /\ res.name = "summary"

\* A ComplexModel built with a processed other than the length it stores.
C11_GivenProcessedReplaced ==
    /\ BeforeValidated("ComplexModel")
    /\ "processed" \in DOMAIN inp.kw
    /\ inp.kw.processed.t = "int" /\ inp.kw.processed.v # obj.processed

\* The status line each test function of test_pydantic_lsp_features.py
\* prints as its last statement.
StatusLine(fn) ==
    CASE fn = "test_field_descriptor" -> "Field descriptor protocol works correctly"
      [] fn = "test_computed_field" -> "computed_field property typing works correctly"
      [] fn = "test_generic_model" -> "Generic model support works correctly"
      [] fn = "test_field_validator" -> "field_validator signature preservation works correctly"
      [] fn = "test_model_validator" -> "model_validator signature preservation works correctly"
      [] fn = "test_field_serializer" -> "field_serializer signature preservation works correctly"
      [] fn = "test_nested_models" -> "Nested model type inference works correctly"
      [] fn = "test_complex_validation" -> "Complex validation flow type tracking works correctly"

\* The lines of standard output after the header, as far as status lines
\* can stand there.
StatusLinesPrinted ==
    SubSeq(out, 2, IF Len(out) < 1 + Len(FeaturesTests) THEN Len(out)
                   ELSE 1 + Len(FeaturesTests))

\* What holds of standard output at every point of a direct run of
\* test_pydantic_lsp_features.py.
StatusLinesRight ==
    (mode = "main" /\ script = "test_pydantic_lsp_features") =>
        /\ \A i \in 1..Len(StatusLinesPrinted) :
              StatusLinesPrinted[i] = StatusLine(FeaturesTests[i])
        /\ \A i \in 1..Len(FeaturesTests) :
              StatusLine(FeaturesTests[i]) \in Range(out) =>
                  /\ i <= Len(calls) /\ calls[i] = FeaturesTests[i]
                  /\ Test(FeaturesTests[i]).raised = "none"
                  /\ out[1 + i] = StatusLine(FeaturesTests[i])
        /\ status = "exit1" =>
              /\ Len(out) = Len(calls)
              /\ \A i \in 1..(Len(calls) - 1) : Test(calls[i]).raised = "none"
              /\ Test(calls[Len(calls)]).raised # "none"
        /\ "All LSP feature tests passed!" \in Range(out) =>
              /\ calls = FeaturesTests
              /\ \A i \in 1..Len(calls) : Test(calls[i]).raised = "none"
              /\ Len(out) >= 3 + Len(FeaturesTests)

\* C12: in a direct run of test_pydantic_lsp_features.py the status lines
\* on standard output are those of the first tests of the fixed sequence,
\* in that order; a test's line is there only if the test was called and
\* raised nothing; once a test has raised, no further test is called and
\* nothing more is printed; the banner 'All LSP feature tests passed!' is
\* there only if all eight tests were called and none raised.
C12_StatusLinePrefix ==
    /\ []StatusLinesRight
    /\ [][(mode = "main" /\ status = "exit1") => (calls' = calls /\ out' = out)]_vars

\* A run stopped by the fourth test after three status lines.
C12_Witness ==
    /\ mode = "main" /\ script = "test_pydantic_lsp_features"
    /\ status = "exit1" /\ Len(calls) = 4
    /\ Len(out) = 4 /\ out[4] = StatusLine("test_generic_model")

\* A run that has printed the banner.
C12_Banner ==
    /\ mode = "main" /\ script = "test_pydantic_lsp_features"
    /\ "All LSP feature tests passed!" \in Range(out)

\* ValidatedModel(name=s, age="30", email="ALICE@EXAMPLE.COM")
ValidatedModelNamed(s) == ValidatedModel_new([ValidatedModel_kw EXCEPT !.name = StrV(s)])

Blank(s) == \A i \in 1..Len(s) : s[i] = " "

\* C13: ValidatedModel.validate_name(s), called directly, raises
\* ValueError when s is empty or all whitespace and otherwise returns s
\* without its leading and trailing whitespace, and the construction
\* ValidatedModel(name=s, ...) is refused in the first case and stores
\* that same returned value in the second; a constructed ValidatedModel
\* stores the lower-cased email it was given, and an email without '@' is
\* refused.
C13_ValidatorsAgree ==
    /\ (mode = "client" /\ res.op = "validate_name") =>
          LET s == res.value.arg
          IN  /\ res.value.returned <=> ~Blank(s)
              /\ IsError(ValidatedModelNamed(s)) <=> Blank(s)
              /\ res.value.returned =>
                    /\ res.value.result = Strip(s)
                    /\ ValidatedModelNamed(s).name = res.value.result
                    /\ IsInstance(obj) => obj.name = res.value.result
              /\ ~res.value.returned => IsError(obj)
    /\ (mode = "client" /\ inp.cls = "ValidatedModel") =>
          /\ (inp.kw.name.t = "str" /\ Blank(inp.kw.name.v)) => IsError(obj)
          /\ ~("@" \in Range(inp.kw.email.v)) => IsError(obj)
          /\ IsInstance(obj) =>
                /\ obj.name = Strip(inp.kw.name.v)
                /\ obj.name = validate_name(inp.kw.name.v).v
                /\ obj.email = Lower(inp.kw.email.v)
                /\ "@" \in Range(obj.email)

\* A direct call that returned its argument stripped of whitespace.
C13_Witness ==
    /\ mode = "client" /\ res.op = "validate_name"
    /\ res.value.returned
    /\ Len(res.value.result) < Len(res.value.arg)

\* A direct call that raised.
C13_Raised ==
    /\ mode = "client" /\ res.op = "validate_name"
    /\ ~res.value.returned /\ Len(res.value.arg) > 0

\* An attribute of a Stats or a Team has just been read.
LspRead(cls, name) ==
    /\ mode = "client" /\ script = "test_lsp_comprehension"
    /\ obj.cls = cls /\ res.op = "getattr" /\ res.name = name

\* C14: total_games is wins + losses; win_rate is 0.0 when total_games is
\* zero and wins / total_games otherwise, so that no division by zero
\* happens; is_winning_team is true exactly when win_rate > 0.5, is false
\* for a team without games, and for counts that are not negative is true
\* exactly when wins > losses.
C14_WinRate ==
    /\ LspRead("Stats", "total_games") => res.value = obj.wins + obj.losses
    /\ LspRead("Stats", "win_rate") =>
          IF obj.wins + obj.losses = 0 THEN res.value.num = 0
          ELSE res.value = TrueDiv(obj.wins, obj.wins + obj.losses)
    /\ LspRead("Team", "is_winning_team") =>
          /\ res.value <=> GreaterThanHalf(Stats_win_rate(obj.stats))
          /\ obj.stats.wins + obj.stats.losses = 0 => ~res.value
          /\ (obj.stats.wins >= 0 /\ obj.stats.losses >= 0) =>
                (res.value <=> obj.stats.wins > obj.stats.losses)

\* What does hold of is_winning_team and the counts: a winning team has
\* more wins than losses, and a team with more wins than losses is a
\* winning team as long as its games are fewer than 2^MantissaBits.
C14_WinningWithinPrecision ==
    LspRead("Team", "is_winning_team") =>
        /\ res.value <=> GreaterThanHalf(Stats_win_rate(obj.stats))
        /\ obj.stats.wins + obj.stats.losses = 0 => ~res.value
        /\ (obj.stats.wins >= 0 /\ obj.stats.losses >= 0) =>
              /\ res.value => obj.stats.wins > obj.stats.losses
              /\ (/\ obj.stats.wins > obj.stats.losses
                  /\ obj.stats.wins + obj.stats.losses < Pow2(MantissaBits))
                    => res.value

\* is_winning_team has been read as false of a team with more wins than
\* losses, neither negative.
C14_Witness ==
    /\ LspRead("Team", "is_winning_team")
    /\ obj.stats.losses >= 0 /\ obj.stats.wins > obj.stats.losses
    /\ ~res.value

====
